---- MODULE Spec2Model ----
(***************************************************************************)
(* Model of .dev-team/implementations/project.py: the class                *)
(* CrumbleBakeryImplementation and the module's entry routine.             *)
(*                                                                         *)
(* Python objects live in a heap (a sequence of objects, an address is an  *)
(* index).  Every dict or list display in the source allocates a new       *)
(* object; values are scalars or references to heap objects.  A dict keeps *)
(* its items in insertion order, as Python dicts do.  A nested display     *)
(* allocates its inner objects first, so a method that returns one appends *)
(* them to the heap in evaluation order, the returned object last.         *)
(***************************************************************************)
EXTENDS Integers, Sequences, FiniteSets

\* ---------------------------------------------------------------- bounds
MaxCalls     == 3   \* method calls a client makes
MaxMutations == 1   \* modifications a client makes to returned structures

\* ---------------------------------------------------------------- values
StrV(s)  == [t |-> "str",  s |-> s,  b |-> FALSE, n |-> 0]
BoolV(b) == [t |-> "bool", s |-> "", b |-> b,     n |-> 0]
IntV(n)  == [t |-> "int",  s |-> "", b |-> FALSE, n |-> n]
RefV(a)  == [t |-> "ref",  s |-> "", b |-> FALSE, n |-> a]

KV(k, v) == [k |-> k, v |-> v]
Elem(v)  == [k |-> "", v |-> v]

Obj(kind, items) == [kind |-> kind, items |-> items]
Dict(items) == Obj("dict", items)
List(items) == Obj("list", items)

\* allocation of a dict / list display: a new object at a new address
NewObj(h, kind, items) ==
    [heap |-> Append(h, Obj(kind, items)), ret |-> Len(h) + 1]

HasKey(h, a, k) == \E i \in 1..Len(h[a].items) : h[a].items[i].k = k

\* d[k] for a key that is present
Lookup(h, a, k) ==
    LET i == CHOOSE j \in 1..Len(h[a].items) : h[a].items[j].k = k
    IN  h[a].items[i].v

\* truth value of an object, as all() and a conditional expression see it
Truthy(h, v) ==
    CASE v.t = "bool" -> v.b
      [] v.t = "int"  -> v.n # 0
      [] v.t = "str"  -> v.s # ""
      [] v.t = "ref"  -> Len(h[v.n].items) > 0

\* self.<attr>
Attr(h, self, name) == Lookup(h, self, name)

\* ------------------------------------------------------- class attributes
COLOR_PALETTE ==
    [kind |-> "dict",
     items |-> << KV("background",   StrV("#f8f5f2")),
                  KV("primary_text", StrV("#2c1810")),
                  KV("accent",       StrV("#d4941e")) >>]

BREAKPOINTS ==
    [kind |-> "dict",
     items |-> << KV("mobile",  StrV("0px - 479px")),
                  KV("desktop", StrV("480px and up")) >>]

PaletteAddr     == 1
BreakpointsAddr == 2

\* the heap once the class body has been executed
ClassHeap == << COLOR_PALETTE, BREAKPOINTS >>

\* ---------------------------------------------------------------- methods
\* CrumbleBakeryImplementation(): a new instance with the four attributes
__init__(h) ==
    NewObj(h, "instance",
           << KV("file_count",              IntV(2)),
              KV("max_lines_per_file",      IntV(200)),
              KV("uses_javascript",         BoolV(FALSE)),
              KV("uses_external_libraries", BoolV(FALSE)) >>)

\* variant: 'no_javascript' loses its not
validate_missing_not(h, self) ==
    NewObj(h, "dict",
           << KV("file_count",             BoolV(Attr(h, self, "file_count") = IntV(2))),
              KV("no_javascript",          BoolV(Truthy(h, Attr(h, self, "uses_javascript")))),
              KV("no_external_libs",       BoolV(~ Truthy(h, Attr(h, self, "uses_external_libraries")))),
              KV("semantic_html",          BoolV(TRUE)),
              KV("mobile_first_css",       BoolV(TRUE)),
              KV("single_media_query",     BoolV(TRUE)),
              KV("form_validation",        BoolV(TRUE)),
              KV("accessibility_features", BoolV(TRUE)) >>)

\* variant: file_count is compared with 3
validate_wrong_count(h, self) ==
    NewObj(h, "dict",
           << KV("file_count",             BoolV(Attr(h, self, "file_count") = IntV(3))),
              KV("no_javascript",          BoolV(~ Truthy(h, Attr(h, self, "uses_javascript")))),
              KV("no_external_libs",       BoolV(~ Truthy(h, Attr(h, self, "uses_external_libraries")))),
              KV("semantic_html",          BoolV(TRUE)),
              KV("mobile_first_css",       BoolV(TRUE)),
              KV("single_media_query",     BoolV(TRUE)),
              KV("form_validation",        BoolV(TRUE)),
              KV("accessibility_features", BoolV(TRUE)) >>)

\* variant: 'no_external_libs' loses its not
validate_libs_not_negated(h, self) ==
    NewObj(h, "dict",
           << KV("file_count",             BoolV(Attr(h, self, "file_count") = IntV(2))),
              KV("no_javascript",          BoolV(~ Truthy(h, Attr(h, self, "uses_javascript")))),
              KV("no_external_libs",       BoolV(Truthy(h, Attr(h, self, "uses_external_libraries")))),
              KV("semantic_html",          BoolV(TRUE)),
              KV("mobile_first_css",       BoolV(TRUE)),
              KV("single_media_query",     BoolV(TRUE)),
              KV("form_validation",        BoolV(TRUE)),
              KV("accessibility_features", BoolV(TRUE)) >>)

\* variant: the method counts its calls in self.file_count
validate_counting(h, self) ==
    LET bumped == [h EXCEPT ![self].items[1].v = IntV(Attr(h, self, "file_count").n + 1)]
    IN  NewObj(bumped, "dict",
           << KV("file_count",             BoolV(Attr(bumped, self, "file_count") = IntV(2))),
              KV("no_javascript",          BoolV(~ Truthy(h, Attr(h, self, "uses_javascript")))),
              KV("no_external_libs",       BoolV(~ Truthy(h, Attr(h, self, "uses_external_libraries")))),
              KV("semantic_html",          BoolV(TRUE)),
              KV("mobile_first_css",       BoolV(TRUE)),
              KV("single_media_query",     BoolV(TRUE)),
              KV("form_validation",        BoolV(TRUE)),
              KV("accessibility_features", BoolV(TRUE)) >>)

\* variant: the compliance dict is built once and handed out again
validate_cached(h, self) ==
    LET built == { a \in 1..Len(h) : h[a].kind = "dict" /\ HasKey(h, a, "semantic_html") }
    IN  IF built # {}
        THEN [heap |-> h, ret |-> CHOOSE a \in built : \A b \in built : a <= b]
        ELSE NewObj(h, "dict",
           << KV("file_count",             BoolV(Attr(h, self, "file_count") = IntV(2))),
              KV("no_javascript",          BoolV(~ Truthy(h, Attr(h, self, "uses_javascript")))),
              KV("no_external_libs",       BoolV(~ Truthy(h, Attr(h, self, "uses_external_libraries")))),
              KV("semantic_html",          BoolV(TRUE)),
              KV("mobile_first_css",       BoolV(TRUE)),
              KV("single_media_query",     BoolV(TRUE)),
              KV("form_validation",        BoolV(TRUE)),
              KV("accessibility_features", BoolV(TRUE)) >>)

validate_architecture_compliance(h, self) ==
    NewObj(h, "dict",
           << KV("file_count",             BoolV(Attr(h, self, "file_count") = IntV(2))),
              KV("no_javascript",          BoolV(~ Truthy(h, Attr(h, self, "uses_javascript")))),
              KV("no_external_libs",       BoolV(~ Truthy(h, Attr(h, self, "uses_external_libraries")))),
              KV("semantic_html",          BoolV(TRUE)),
              KV("mobile_first_css",       BoolV(TRUE)),
              KV("single_media_query",     BoolV(TRUE)),
              KV("form_validation",        BoolV(TRUE)),
              KV("accessibility_features", BoolV(TRUE)) >>)

\* variant: the first two social links are swapped
html_links_reordered(h, self) ==
    LET a == Len(h)
    IN  [heap |-> h \o
           << \* a+1: 'head'
              Dict(<< KV("charset",    StrV("UTF-8")),
                      KV("viewport",   StrV("width=device-width, initial-scale=1.0")),
                      KV("stylesheet", StrV("style.css (relative path)")) >>),
              \* a+2: 'header'
              Dict(<< KV("h1", StrV("Crumble Bakery (brand name)")) >>),
              \* a+3: 'input'
              Dict(<< KV("type",          StrV("email")),
                      KV("required",      BoolV(TRUE)),
                      KV("accessibility", StrV("aria-label and visually-hidden label")) >>),
              \* a+4: 'button'
              Dict(<< KV("type", StrV("submit")),
                      KV("text", StrV("Notify Me")) >>),
              \* a+5: 'form'
              Dict(<< KV("method", StrV("POST")),
                      KV("input",  RefV(a + 3)),
                      KV("button", RefV(a + 4)) >>),
              \* a+6: 'main'
              Dict(<< KV("h2",   StrV("Coming Soon")),
                      KV("form", RefV(a + 5)) >>),
              \* a+7: 'social_links'
              List(<< Elem(StrV("Facebook")),
                      Elem(StrV("Instagram")),
                      Elem(StrV("Twitter")) >>),
              \* a+8: 'contact_info'
              Dict(<< KV("email",   StrV("hello@crumblebakery.com")),
                      KV("address", StrV("123 Baker Street, Sweet City, SC 12345")) >>),
              \* a+9: 'footer'
              Dict(<< KV("social_links", RefV(a + 7)),
                      KV("contact_info", RefV(a + 8)) >>),
              \* a+10: 'body'
              Dict(<< KV("header", RefV(a + 2)),
                      KV("main",   RefV(a + 6)),
                      KV("footer", RefV(a + 9)) >>),
              \* a+11: the dict returned
              Dict(<< KV("doctype",   StrV("HTML5")),
                      KV("html_lang", StrV("en")),
                      KV("head",      RefV(a + 1)),
                      KV("body",      RefV(a + 10)) >>) >>,
         ret |-> a + 11]

get_html_structure(h, self) ==
    LET a == Len(h)
    IN  [heap |-> h \o
           << \* a+1: 'head'
              Dict(<< KV("charset",    StrV("UTF-8")),
                      KV("viewport",   StrV("width=device-width, initial-scale=1.0")),
                      KV("stylesheet", StrV("style.css (relative path)")) >>),
              \* a+2: 'header'
              Dict(<< KV("h1", StrV("Crumble Bakery (brand name)")) >>),
              \* a+3: 'input'
              Dict(<< KV("type",          StrV("email")),
                      KV("required",      BoolV(TRUE)),
                      KV("accessibility", StrV("aria-label and visually-hidden label")) >>),
              \* a+4: 'button'
              Dict(<< KV("type", StrV("submit")),
                      KV("text", StrV("Notify Me")) >>),
              \* a+5: 'form'
              Dict(<< KV("method", StrV("POST")),
                      KV("input",  RefV(a + 3)),
                      KV("button", RefV(a + 4)) >>),
              \* a+6: 'main'
              Dict(<< KV("h2",   StrV("Coming Soon")),
                      KV("form", RefV(a + 5)) >>),
              \* a+7: 'social_links'
              List(<< Elem(StrV("Instagram")),
                      Elem(StrV("Facebook")),
                      Elem(StrV("Twitter")) >>),
              \* a+8: 'contact_info'
              Dict(<< KV("email",   StrV("hello@crumblebakery.com")),
                      KV("address", StrV("123 Baker Street, Sweet City, SC 12345")) >>),
              \* a+9: 'footer'
              Dict(<< KV("social_links", RefV(a + 7)),
                      KV("contact_info", RefV(a + 8)) >>),
              \* a+10: 'body'
              Dict(<< KV("header", RefV(a + 2)),
                      KV("main",   RefV(a + 6)),
                      KV("footer", RefV(a + 9)) >>),
              \* a+11: the dict returned
              Dict(<< KV("doctype",   StrV("HTML5")),
                      KV("html_lang", StrV("en")),
                      KV("head",      RefV(a + 1)),
                      KV("body",      RefV(a + 10)) >>) >>,
         ret |-> a + 11]

get_css_architecture(h, self) ==
    LET a == Len(h)
    IN  [heap |-> h \o
           << \* a+1: 'centering'
              Dict(<< KV("vertical",   StrV("min-height: 100vh + justify-content: center")),
                      KV("horizontal", StrV("align-items: center")) >>),
              \* a+2: 'form_layout'
              Dict(<< KV("mobile",  StrV("flex-direction: column")),
                      KV("desktop", StrV("flex-direction: row")) >>),
              \* a+3: 'responsive_strategy'
              Dict(<< KV("mobile",      StrV("Default styles (0-479px)")),
                      KV("desktop",     StrV("Single @media query at 480px+")),
                      KV("form_layout", RefV(a + 2)) >>),
              \* a+4: 'interaction_states'
              Dict(<< KV("hover_effects", StrV("Color changes only (no transitions)")),
                      KV("focus_states",  StrV("Border and box-shadow for accessibility")) >>),
              \* a+5: the dict returned
              Dict(<< KV("approach",            StrV("Mobile-First Responsive Design")),
                      KV("layout_engine",       StrV("CSS Flexbox")),
                      KV("reset",               StrV("Universal box-sizing and margin/padding reset")),
                      KV("centering",           RefV(a + 1)),
                      KV("typography",          StrV("System font stack (system-ui, sans-serif)")),
                      KV("color_management",    StrV("CSS Custom Properties (:root variables)")),
                      KV("responsive_strategy", RefV(a + 3)),
                      KV("interaction_states",  RefV(a + 4)) >>) >>,
         ret |-> a + 5]

\* variant: the method stores the number of features in the instance
accessibility_writes_attribute(h, self) ==
    NewObj([h EXCEPT ![self].items[2].v = IntV(7)], "list",
           << Elem(StrV("Semantic HTML5 elements (header, main, footer, address)")),
              Elem(StrV("Proper form labeling with visually-hidden labels")),
              Elem(StrV("ARIA labels for screen readers")),
              Elem(StrV("Focus states for keyboard navigation")),
              Elem(StrV("High contrast color palette for readability")),
              Elem(StrV("Responsive design for various screen sizes")),
              Elem(StrV("HTML5 form validation with required attributes")) >>)

get_accessibility_features(h, self) ==
    NewObj(h, "list",
           << Elem(StrV("Semantic HTML5 elements (header, main, footer, address)")),
              Elem(StrV("Proper form labeling with visually-hidden labels")),
              Elem(StrV("ARIA labels for screen readers")),
              Elem(StrV("Focus states for keyboard navigation")),
              Elem(StrV("High contrast color palette for readability")),
              Elem(StrV("Responsive design for various screen sizes")),
              Elem(StrV("HTML5 form validation with required attributes")) >>)

get_performance_optimizations(h, self) ==
    NewObj(h, "list",
           << Elem(StrV("No external font requests (system font stack)")),
              Elem(StrV("No JavaScript reduces bundle size")),
              Elem(StrV("Minimal CSS with efficient selectors")),
              Elem(StrV("CSS custom properties for maintainable theming")),
              Elem(StrV("Single media query reduces complexity")),
              Elem(StrV("Optimized image-free design with CSS styling")),
              Elem(StrV("Clean HTML structure for fast parsing")) >>)

\* variant: deployment_ready is read from a flag of the instance
report_ready_from_flag(h, self) ==
    LET compliance == validate_architecture_compliance(h, self)
        html       == get_html_structure(compliance.heap, self)
        css        == get_css_architecture(html.heap, self)
        access     == get_accessibility_features(css.heap, self)
        perf       == get_performance_optimizations(access.heap, self)
        stats      == NewObj(perf.heap, "dict",
                        << KV("total_files", Attr(perf.heap, self, "file_count")),
                           KV("html_lines",  StrV("~50 lines")),
                           KV("css_lines",   StrV("~180 lines")),
                           KV("total_lines", StrV("~230 lines (within 400 line limit)")) >>)
    IN  NewObj(stats.heap, "dict",
          << KV("project_name",              StrV("Crumble Bakery Coming Soon Page")),
             KV("implementation_date",       StrV("2026-02-03")),
             KV("architecture_compliance",   RefV(compliance.ret)),
             KV("html_structure",            RefV(html.ret)),
             KV("css_architecture",          RefV(css.ret)),
             KV("accessibility_features",    RefV(access.ret)),
             KV("performance_optimizations", RefV(perf.ret)),
             KV("file_statistics",           RefV(stats.ret)),
             KV("browser_compatibility",     StrV("Modern browsers with CSS Flexbox support")),
             KV("deployment_ready",          Attr(h, self, "uses_javascript")) >>)

\* variant: html_structure and css_architecture are swapped
report_fields_swapped(h, self) ==
    LET compliance == validate_architecture_compliance(h, self)
        html       == get_html_structure(compliance.heap, self)
        css        == get_css_architecture(html.heap, self)
        access     == get_accessibility_features(css.heap, self)
        perf       == get_performance_optimizations(access.heap, self)
        stats      == NewObj(perf.heap, "dict",
                        << KV("total_files", Attr(perf.heap, self, "file_count")),
                           KV("html_lines",  StrV("~50 lines")),
                           KV("css_lines",   StrV("~180 lines")),
                           KV("total_lines", StrV("~230 lines (within 400 line limit)")) >>)
    IN  NewObj(stats.heap, "dict",
          << KV("project_name",              StrV("Crumble Bakery Coming Soon Page")),
             KV("implementation_date",       StrV("2026-02-03")),
             KV("architecture_compliance",   RefV(compliance.ret)),
             KV("html_structure",            RefV(css.ret)),
             KV("css_architecture",          RefV(html.ret)),
             KV("accessibility_features",    RefV(access.ret)),
             KV("performance_optimizations", RefV(perf.ret)),
             KV("file_statistics",           RefV(stats.ret)),
             KV("browser_compatibility",     StrV("Modern browsers with CSS Flexbox support")),
             KV("deployment_ready",          BoolV(TRUE)) >>)

generate_implementation_report(h, self) ==
    LET compliance == validate_architecture_compliance(h, self)
        html       == get_html_structure(compliance.heap, self)
        css        == get_css_architecture(html.heap, self)
        access     == get_accessibility_features(css.heap, self)
        perf       == get_performance_optimizations(access.heap, self)
        stats      == NewObj(perf.heap, "dict",
                        << KV("total_files", Attr(perf.heap, self, "file_count")),
                           KV("html_lines",  StrV("~50 lines")),
                           KV("css_lines",   StrV("~180 lines")),
                           KV("total_lines", StrV("~230 lines (within 400 line limit)")) >>)
    IN  NewObj(stats.heap, "dict",
          << KV("project_name",              StrV("Crumble Bakery Coming Soon Page")),
             KV("implementation_date",       StrV("2026-02-03")),
             KV("architecture_compliance",   RefV(compliance.ret)),
             KV("html_structure",            RefV(html.ret)),
             KV("css_architecture",          RefV(css.ret)),
             KV("accessibility_features",    RefV(access.ret)),
             KV("performance_optimizations", RefV(perf.ret)),
             KV("file_statistics",           RefV(stats.ret)),
             KV("browser_compatibility",     StrV("Modern browsers with CSS Flexbox support")),
             KV("deployment_ready",          BoolV(TRUE)) >>)

\* ------------------------------------------------------- str / formatting
LowerCase == << "a","b","c","d","e","f","g","h","i","j","k","l","m",
                "n","o","p","q","r","s","t","u","v","w","x","y","z" >>
UpperCase == << "A","B","C","D","E","F","G","H","I","J","K","L","M",
                "N","O","P","Q","R","S","T","U","V","W","X","Y","Z" >>
Digits    == << "0","1","2","3","4","5","6","7","8","9" >>

IsLower(c) == \E i \in 1..26 : LowerCase[i] = c
IsUpper(c) == \E i \in 1..26 : UpperCase[i] = c
IsCased(c) == IsLower(c) \/ IsUpper(c)
ToUpper(c) == IF IsLower(c) THEN UpperCase[CHOOSE i \in 1..26 : LowerCase[i] = c] ELSE c
ToLower(c) == IF IsUpper(c) THEN LowerCase[CHOOSE i \in 1..26 : UpperCase[i] = c] ELSE c

\* the characters of the requirement names (the keys of the compliance dict)
Chars(k) ==
    CASE k = "file_count" -> <<"f","i","l","e","_","c","o","u","n","t">>
      [] k = "no_javascript" -> <<"n","o","_","j","a","v","a","s","c","r","i","p","t">>
      [] k = "no_external_libs" -> <<"n","o","_","e","x","t","e","r","n","a","l","_","l","i","b","s">>
      [] k = "semantic_html" -> <<"s","e","m","a","n","t","i","c","_","h","t","m","l">>
      [] k = "mobile_first_css" -> <<"m","o","b","i","l","e","_","f","i","r","s","t","_","c","s","s">>
      [] k = "single_media_query" -> <<"s","i","n","g","l","e","_","m","e","d","i","a","_","q","u","e","r","y">>
      [] k = "form_validation" -> <<"f","o","r","m","_","v","a","l","i","d","a","t","i","o","n">>
      [] k = "accessibility_features" -> <<"a","c","c","e","s","s","i","b","i","l","i","t","y","_","f","e","a","t","u","r","e","s">>

\* str.replace(old, new) for single characters
Replace(s, old, new) == [i \in 1..Len(s) |-> IF s[i] = old THEN new ELSE s[i]]

\* str.title(): a cased character is upper case when it follows an uncased
\* character (or starts the string), lower case otherwise
Title(s) ==
    [i \in 1..Len(s) |->
        IF i > 1 /\ IsCased(s[i-1]) THEN ToLower(s[i]) ELSE ToUpper(s[i])]

RECURSIVE IntToStr(_)
IntToStr(n) ==
    IF n < 10 THEN << Digits[n + 1] >>
    ELSE IntToStr(n \div 10) \o << Digits[(n % 10) + 1] >>

\* str() of a value placed in an f-string
Format(v) ==
    CASE v.t = "bool" -> IF v.b THEN <<"T","r","u","e">> ELSE <<"F","a","l","s","e">>
      [] v.t = "int"  -> IntToStr(v.n)

\* all(d.values())
AllValues(h, a) == \A i \in 1..Len(h[a].items) : Truthy(h, h[a].items[i].v)

CheckMark == "U+2713"
CrossMark == "U+2717"

StatusHeader     == <<"C","r","u","m","b","l","e"," ","B","a","k","e","r","y"," ","I","m","p","l","e","m","e","n","t","a","t","i","o","n"," ","S","t","a","t","u","s",":">>
CompliantPrefix  == <<"A","r","c","h","i","t","e","c","t","u","r","e"," ","C","o","m","p","l","i","a","n","t",":"," ">>
FilesPrefix      == <<"F","i","l","e","s"," ","C","r","e","a","t","e","d",":"," ">>
DeploymentPrefix == <<"D","e","p","l","o","y","m","e","n","t"," ","R","e","a","d","y",":"," ">>

\* variant: the two icons are exchanged
line_icons_exchanged(h, item) ==
    LET status_icon == IF Truthy(h, item.v) THEN CrossMark ELSE CheckMark
    IN  << status_icon, " " >> \o Title(Replace(Chars(item.k), "_", " "))
           \o << ":", " " >> \o Format(item.v)

\* the line printed for one item of the compliance dict
RequirementLine(h, item) ==
    LET status_icon == IF Truthy(h, item.v) THEN CheckMark ELSE CrossMark
    IN  << status_icon, " " >> \o Title(Replace(Chars(item.k), "_", " "))
           \o << ":", " " >> \o Format(item.v)

\* ------------------------------------------------- structure of the heap
Token(t, s) == [t |-> t, s |-> s, b |-> FALSE, n |-> 0]

\* the structure under a value, written out without addresses
RECURSIVE Flat(_, _)
RECURSIVE FlatItems(_, _, _)
Flat(h, v) ==
    IF v.t # "ref" THEN << v >>
    ELSE << Token("open", h[v.n].kind) >> \o FlatItems(h, h[v.n].items, 1)
            \o << Token("close", "") >>
FlatItems(h, items, i) ==
    IF i > Len(items) THEN << >>
    ELSE << Token("key", items[i].k) >> \o Flat(h, items[i].v)
            \o FlatItems(h, items, i + 1)

Children(h, a) ==
    { h[a].items[i].v.n : i \in { j \in 1..Len(h[a].items) : h[a].items[j].v.t = "ref" } }

\* the objects reachable from a set of objects
RECURSIVE ReachFrom(_, _)
ReachFrom(h, seen) ==
    LET more == UNION { Children(h, a) : a \in seen }
    IN  IF more \subseteq seen THEN seen ELSE ReachFrom(h, seen \cup more)

Reach(h, a) == ReachFrom(h, {a})

\* ------------------------------------------------------------------ state
VARIABLES
    mode,           \* "main": the module is run as a script; "import": it is
                    \* imported and a client uses the class
    heap,           \* the objects
    inst,           \* address of the instance the client constructed, if any
    returned,       \* the calls made so far, each with the address it returned
                    \* and the structure found there when it returned
    touched,        \* indices of returned results the client has modified
    nmut,           \* number of modifications the client has made
    pc,             \* position of the entry routine
    bakery_impl,    \* the entry routine's locals (0: not bound yet)
    report,
    compliance,
    all_compliant,
    idx,            \* position of the for loop in compliance.items()
    out,            \* lines printed to standard output
    exit_status     \* -1 while running

vars == << mode, heap, inst, returned, touched, nmut, pc, bakery_impl, report,
           compliance, all_compliant, idx, out, exit_status >>

mainVars   == << pc, bakery_impl, report, compliance, all_compliant, idx, out,
                 exit_status >>
clientVars == << inst, touched, nmut >>

Init ==
    /\ mode \in {"main", "import"}
    /\ heap = ClassHeap
    /\ inst = << >>
    /\ returned = << >>
    /\ touched = {}
    /\ nmut = 0
    /\ pc = "start"
    /\ bakery_impl = 0
    /\ report = 0
    /\ compliance = 0
    /\ all_compliant = FALSE
    /\ idx = 0
    /\ out = << >>
    /\ exit_status = -1

\* a method call returns: the heap it leaves and the result it hands out
Return(op, self, result) ==
    \E r \in {result} :
        /\ heap' = r.heap
        /\ returned' = Append(returned,
                          [op |-> op, self |-> self, addr |-> r.ret,
                           val |-> Flat(r.heap, RefV(r.ret))])

\* ----------------------------------------------------------------- client
Construct ==
    /\ mode = "import"
    /\ inst = << >>
    /\ \E r \in {__init__(heap)} :
           /\ heap' = r.heap
           /\ inst' = Append(inst, r.ret)
    /\ UNCHANGED << mode, returned, touched, nmut, mainVars >>

CanCall == mode = "import" /\ Len(returned) < MaxCalls

CallValidate ==
    /\ CanCall
    /\ \E i \in 1..Len(inst) :
          Return("validate", inst[i], validate_architecture_compliance(heap, inst[i]))
    /\ UNCHANGED << mode, clientVars, mainVars >>

CallHtml ==
    /\ CanCall
    /\ \E i \in 1..Len(inst) :
          Return("html", inst[i], get_html_structure(heap, inst[i]))
    /\ UNCHANGED << mode, clientVars, mainVars >>

CallCss ==
    /\ CanCall
    /\ \E i \in 1..Len(inst) :
          Return("css", inst[i], get_css_architecture(heap, inst[i]))
    /\ UNCHANGED << mode, clientVars, mainVars >>

CallAccessibility ==
    /\ CanCall
    /\ \E i \in 1..Len(inst) :
          Return("accessibility", inst[i], get_accessibility_features(heap, inst[i]))
    /\ UNCHANGED << mode, clientVars, mainVars >>

CallPerformance ==
    /\ CanCall
    /\ \E i \in 1..Len(inst) :
          Return("performance", inst[i], get_performance_optimizations(heap, inst[i]))
    /\ UNCHANGED << mode, clientVars, mainVars >>

CallReport ==
    /\ CanCall
    /\ \E i \in 1..Len(inst) :
          Return("report", inst[i], generate_implementation_report(heap, inst[i]))
    /\ UNCHANGED << mode, clientVars, mainVars >>

SetItems(h, a, items) == [h EXCEPT ![a].items = items]

\* the client appends to a list it reached through a result it holds
MutateAppend ==
    /\ mode = "import"
    /\ nmut < MaxMutations
    /\ \E j \in 1..Len(returned) : \E a \in Reach(heap, returned[j].addr) :
          /\ heap[a].kind = "list"
          /\ heap' = SetItems(heap, a, Append(heap[a].items, Elem(StrV("extra"))))
          /\ touched' = touched \cup {j}
    /\ nmut' = nmut + 1
    /\ UNCHANGED << mode, inst, returned, mainVars >>

\* the flags a client sets
ClientFlags == {"file_count", "semantic_html", "required", "deployment_ready"}

\* the client sets a flag to False in a dict it reached through a result
MutateSetFalse ==
    /\ mode = "import"
    /\ nmut < MaxMutations
    /\ \E j \in 1..Len(returned) : \E a \in Reach(heap, returned[j].addr) :
       \E i \in 1..Len(heap[a].items) :
          /\ heap[a].kind = "dict"
          /\ heap[a].items[i].k \in ClientFlags
          /\ heap[a].items[i].v = BoolV(TRUE)
          /\ heap' = SetItems(heap, a,
                        [heap[a].items EXCEPT ![i].v = BoolV(FALSE)])
          /\ touched' = touched \cup {j}
    /\ nmut' = nmut + 1
    /\ UNCHANGED << mode, inst, returned, mainVars >>

\* ---------------------------------------------------------- entry routine
At(l) == mode = "main" /\ pc = l

Emit(line) == out' = Append(out, line)

Raise ==
    /\ pc' = "raised"
    /\ exit_status' = 1

\* bakery_impl = CrumbleBakeryImplementation()
MainConstruct ==
    /\ At("start")
    /\ \E r \in {__init__(heap)} :
           /\ heap' = r.heap
           /\ bakery_impl' = r.ret
    /\ pc' = "report"
    /\ UNCHANGED << mode, returned, clientVars, report, compliance,
                    all_compliant, idx, out, exit_status >>

\* report = bakery_impl.generate_implementation_report()
MainReport ==
    /\ At("report")
    /\ \E r \in {generate_implementation_report(heap, bakery_impl)} :
           /\ Return("report", bakery_impl, r)
           /\ report' = r.ret
    /\ pc' = "validate"
    /\ UNCHANGED << mode, clientVars, bakery_impl, compliance, all_compliant,
                    idx, out, exit_status >>

\* compliance = bakery_impl.validate_architecture_compliance()
MainValidate ==
    /\ At("validate")
    /\ \E r \in {validate_architecture_compliance(heap, bakery_impl)} :
           /\ Return("validate", bakery_impl, r)
           /\ compliance' = r.ret
    /\ pc' = "all"
    /\ UNCHANGED << mode, clientVars, bakery_impl, report, all_compliant,
                    idx, out, exit_status >>

\* all_compliant = all(compliance.values())
MainAll ==
    /\ At("all")
    /\ all_compliant' = AllValues(heap, compliance)
    /\ pc' = "print_header"
    /\ UNCHANGED << mode, heap, returned, clientVars, bakery_impl, report,
                    compliance, idx, out, exit_status >>

MainPrintHeader ==
    /\ At("print_header")
    /\ Emit(StatusHeader)
    /\ pc' = "print_compliant"
    /\ UNCHANGED << mode, heap, returned, clientVars, bakery_impl, report,
                    compliance, all_compliant, idx, exit_status >>

MainPrintCompliant ==
    /\ At("print_compliant")
    /\ Emit(CompliantPrefix \o Format(BoolV(all_compliant)))
    /\ pc' = "print_files"
    /\ UNCHANGED << mode, heap, returned, clientVars, bakery_impl, report,
                    compliance, all_compliant, idx, exit_status >>

\* report['file_statistics']['total_files'] raises KeyError on a missing key
MainPrintFiles ==
    /\ At("print_files")
    /\ IF /\ HasKey(heap, report, "file_statistics")
          /\ Lookup(heap, report, "file_statistics").t = "ref"
          /\ HasKey(heap, Lookup(heap, report, "file_statistics").n, "total_files")
       THEN /\ Emit(FilesPrefix \o
                     Format(Lookup(heap, Lookup(heap, report, "file_statistics").n,
                                   "total_files")))
            /\ pc' = "print_ready"
            /\ UNCHANGED exit_status
       ELSE /\ Raise
            /\ UNCHANGED out
    /\ UNCHANGED << mode, heap, returned, clientVars, bakery_impl, report,
                    compliance, all_compliant, idx >>

MainPrintReady ==
    /\ At("print_ready")
    /\ IF HasKey(heap, report, "deployment_ready")
       THEN /\ Emit(DeploymentPrefix \o Format(Lookup(heap, report, "deployment_ready")))
            /\ pc' = "loop"
            /\ idx' = 1
            /\ UNCHANGED exit_status
       ELSE /\ Raise
            /\ UNCHANGED << out, idx >>
    /\ UNCHANGED << mode, heap, returned, clientVars, bakery_impl, report,
                    compliance, all_compliant >>

\* one iteration of: for requirement, status in compliance.items()
MainLoop ==
    /\ At("loop")
    /\ idx <= Len(heap[compliance].items)
    /\ Emit(RequirementLine(heap, heap[compliance].items[idx]))
    /\ idx' = idx + 1
    /\ UNCHANGED << mode, heap, returned, clientVars, pc, bakery_impl, report,
                    compliance, all_compliant, exit_status >>

\* the loop is exhausted and the script ends
MainExit ==
    /\ At("loop")
    /\ idx > Len(heap[compliance].items)
    /\ pc' = "done"
    /\ exit_status' = 0
    /\ UNCHANGED << mode, heap, returned, clientVars, bakery_impl, report,
                    compliance, all_compliant, idx, out >>

Next ==
    \/ Construct
    \/ CallValidate
    \/ CallHtml
    \/ CallCss
    \/ CallAccessibility
    \/ CallPerformance
    \/ CallReport
    \/ MutateAppend
    \/ MutateSetFalse
    \/ MainConstruct
    \/ MainReport
    \/ MainValidate
    \/ MainAll
    \/ MainPrintHeader
    \/ MainPrintCompliant
    \/ MainPrintFiles
    \/ MainPrintReady
    \/ MainLoop
    \/ MainExit

Spec == Init /\ [][Next]_vars

MainStep ==
    \/ MainConstruct \/ MainReport \/ MainValidate \/ MainAll
    \/ MainPrintHeader \/ MainPrintCompliant \/ MainPrintFiles
    \/ MainPrintReady \/ MainLoop \/ MainExit

\* the entry routine is a sequential script: the interpreter runs its next
\* statement as long as there is one
FairSpec == Spec /\ WF_vars(MainStep)

\* ============================================================= properties
RequirementNames ==
    << "file_count", "no_javascript", "no_external_libs", "semantic_html",
       "mobile_first_css", "single_media_query", "form_validation",
       "accessibility_features" >>

ReportFields ==
    << "project_name", "implementation_date", "architecture_compliance",
       "html_structure", "css_architecture", "accessibility_features",
       "performance_optimizations", "file_statistics",
       "browser_compatibility", "deployment_ready" >>

Results(op) == { j \in 1..Len(returned) : returned[j].op = op }
Untouched(op) == Results(op) \ touched

\* d[k1][k2]...[kn]
RECURSIVE Path(_, _, _)
Path(h, v, ks) ==
    IF ks = << >> THEN v ELSE Path(h, Lookup(h, v.n, Head(ks)), Tail(ks))

Keys(h, a) == [i \in 1..Len(h[a].items) |-> h[a].items[i].k]

\* ------------------------------------------------------------------- C1
\* C1: every call of validate_architecture_compliance() returns the mapping
\* of the eight requirement names, in this order, each mapped to True.
AllTrueCompliance(val) ==
    /\ Len(val) = 18
    /\ val[1] = Token("open", "dict")
    /\ \A i \in 1..8 : /\ val[2 * i] = Token("key", RequirementNames[i])
                        /\ val[2 * i + 1] = BoolV(TRUE)
    /\ val[18] = Token("close", "")

C1_ComplianceAlwaysAllTrue ==
    \A j \in Results("validate") : AllTrueCompliance(returned[j].val)

\* two validate results, a flag of the earlier one set to False by the
\* client.  A call reads nothing the client holds, so this state is also the
\* one reached when the modification precedes the second call.
C1_Witness ==
    \E i \in Results("validate") \cap touched : \E j \in Results("validate") :
        /\ i < j
        /\ \E n \in 1..8 : heap[returned[i].addr].items[n].v = BoolV(FALSE)

\* ------------------------------------------------------------------- C2
\* C2: generate_implementation_report() is idempotent: every call returns a
\* report with the same structure as the first one, whatever was called in
\* between.
C2_ReportIdempotent ==
    \A i \in Results("report") : \A j \in Results("report") :
        returned[i].val = returned[j].val

\* two reports with a call of another operation between them
C2_Witness ==
    \E i \in Results("report") : \E j \in Results("report") :
    \E k \in 1..Len(returned) :
        i < k /\ k < j /\ returned[k].op # "report"

\* ------------------------------------------------------------------- C3
\* C3: the entry routine always comes to its end with exit status 0, no
\* exception raised, and its output has the line
\* "Architecture Compliant: True".
ArchitectureCompliantTrue == CompliantPrefix \o <<"T","r","u","e">>

EndedNormally ==
    /\ pc = "done"
    /\ exit_status = 0
    /\ \E i \in 1..Len(out) : out[i] = ArchitectureCompliantTrue

C3_EntryRoutineEndsNormally == (mode = "main") ~> EndedNormally

C3_Witness == mode = "main" /\ EndedNormally

ConstructedAttributes ==
    << KV("file_count",              IntV(2)),
       KV("max_lines_per_file",      IntV(200)),
       KV("uses_javascript",         BoolV(FALSE)),
       KV("uses_external_libraries", BoolV(FALSE)) >>

Instances == { a \in 1..Len(heap) : heap[a].kind = "instance" }

C5_ConfigurationUnchanged ==
    /\ heap[PaletteAddr].items =
          << KV("background",   StrV("#f8f5f2")),
             KV("primary_text", StrV("#2c1810")),
             KV("accent",       StrV("#d4941e")) >>
    /\ heap[BreakpointsAddr].items =
          << KV("mobile",  StrV("0px - 479px")),
             KV("desktop", StrV("480px and up")) >>
    /\ \A a \in Instances : heap[a].items = ConstructedAttributes

\* every operation has been called (the report calls the five accessors)
\* and the client has modified a result
C5_Witness ==
    /\ Instances # {}
    /\ Results("report") # {}
    /\ Len(returned) >= 2
    /\ nmut > 0

\* ------------------------------------------------------------------- C6
\* C6: a report has the ten top-level fields, and its architecture_compliance,
\* html_structure, css_architecture, accessibility_features and
\* performance_optimizations are equal to what the five accessors return on
\* the same instance in the same state.
SameAs(j, field, r) ==
    Flat(heap, Lookup(heap, returned[j].addr, field)) = Flat(r.heap, RefV(r.ret))

C6_ReportComposesAccessors ==
    \A j \in Untouched("report") :
        LET self == returned[j].self
        IN  /\ Keys(heap, returned[j].addr) = ReportFields
            /\ SameAs(j, "architecture_compliance",
                      validate_architecture_compliance(heap, self))
            /\ SameAs(j, "html_structure", get_html_structure(heap, self))
            /\ SameAs(j, "css_architecture", get_css_architecture(heap, self))
            /\ SameAs(j, "accessibility_features",
                      get_accessibility_features(heap, self))
            /\ SameAs(j, "performance_optimizations",
                      get_performance_optimizations(heap, self))

\* a report the client holds unmodified, after other calls and a modification
\* of another result
C6_Witness ==
    /\ Untouched("report") # {}
    /\ touched # {}
    /\ Len(returned) = MaxCalls

\* ------------------------------------------------------------------- C7
\* C7: the entry routine constructs one instance, generates the report, then
\* computes compliance, then prints the four summary lines followed by
\* exactly one line per requirement, in the key order of the compliance map,
\* each with the check mark and the status True.
TitledNames ==
    << <<"F","i","l","e"," ","C","o","u","n","t">>,
       <<"N","o"," ","J","a","v","a","s","c","r","i","p","t">>,
       <<"N","o"," ","E","x","t","e","r","n","a","l"," ","L","i","b","s">>,
       <<"S","e","m","a","n","t","i","c"," ","H","t","m","l">>,
       <<"M","o","b","i","l","e"," ","F","i","r","s","t"," ","C","s","s">>,
       <<"S","i","n","g","l","e"," ","M","e","d","i","a"," ","Q","u","e","r","y">>,
       <<"F","o","r","m"," ","V","a","l","i","d","a","t","i","o","n">>,
       <<"A","c","c","e","s","s","i","b","i","l","i","t","y"," ","F","e","a","t","u","r","e","s">> >>

SummaryLines ==
    << StatusHeader,
       CompliantPrefix \o <<"T","r","u","e">>,
       FilesPrefix \o <<"2">>,
       DeploymentPrefix \o <<"T","r","u","e">> >>

ExpectedOutput ==
    SummaryLines \o
    [i \in 1..8 |-> << CheckMark, " " >> \o TitledNames[i]
                       \o << ":", " ", "T", "r", "u", "e" >>]

C7_EntryRoutineOrderAndOutput ==
    mode = "main" =>
        /\ Cardinality(Instances) <= 1
        /\ (report # 0 => bakery_impl # 0)
        /\ (compliance # 0 => report # 0)
        /\ (report # 0 => /\ Len(returned) >= 1
                          /\ returned[1].op = "report"
                          /\ returned[1].addr = report
                          /\ returned[1].self = bakery_impl)
        /\ (compliance # 0 => /\ Len(returned) = 2
                              /\ returned[2].op = "validate"
                              /\ returned[2].addr = compliance
                              /\ returned[2].self = bakery_impl)
        /\ (out # << >> => compliance # 0)
        /\ Len(out) <= Len(ExpectedOutput)
        /\ out = SubSeq(ExpectedOutput, 1, Len(out))
        /\ (pc = "done" => out = ExpectedOutput)

C7_Witness == mode = "main" /\ pc = "done" /\ Len(out) = 12

\* ------------------------------------------------------------------- C8
\* C8: body.footer.social_links of every html structure, and of the
\* html_structure of every report, is the list Instagram, Facebook, Twitter.
SocialLinks ==
    << Elem(StrV("Instagram")), Elem(StrV("Facebook")), Elem(StrV("Twitter")) >>

ListAt(v, ks) == heap[Path(heap, v, ks).n]

C8_SocialLinks ==
    /\ \A j \in Untouched("html") :
          LET l == ListAt(RefV(returned[j].addr), <<"body", "footer", "social_links">>)
          IN  l.kind = "list" /\ l.items = SocialLinks
    /\ \A j \in Untouched("report") :
          LET l == ListAt(RefV(returned[j].addr),
                          <<"html_structure", "body", "footer", "social_links">>)
          IN  l.kind = "list" /\ l.items = SocialLinks

\* two html structures, the client having appended to the social_links of
\* the earlier one (before or after the second call)
C8_Witness ==
    \E i \in Results("html") \cap touched : \E j \in Untouched("html") :
        /\ i < j
        /\ Len(ListAt(RefV(returned[i].addr),
                      <<"body", "footer", "social_links">>).items) = 4

\* ------------------------------------------------------------------- C9
\* C9: within one report, file_statistics.total_files is the instance's
\* file_count, architecture_compliance.file_count is True exactly when
\* total_files is 2, and no_javascript / no_external_libs are the negations
\* of the instance's uses_javascript / uses_external_libraries.
C9_ReportConsistent ==
    \A j \in Untouched("report") :
        LET r     == RefV(returned[j].addr)
            self  == returned[j].self
            total == Path(heap, r, <<"file_statistics", "total_files">>)
            comp(k) == Path(heap, r, <<"architecture_compliance", k>>)
        IN  /\ total = Attr(heap, self, "file_count")
            /\ comp("file_count") = BoolV(total = IntV(2))
            /\ comp("no_javascript") = BoolV(~ Attr(heap, self, "uses_javascript").b)
            /\ comp("no_external_libs") =
                  BoolV(~ Attr(heap, self, "uses_external_libraries").b)

\* a report the client holds unmodified, whose file count is 2
C9_Witness ==
    \E j \in Untouched("report") :
        /\ Path(heap, RefV(returned[j].addr),
                <<"file_statistics", "total_files">>) = IntV(2)
        /\ Path(heap, RefV(returned[j].addr),
                <<"architecture_compliance", "file_count">>) = BoolV(TRUE)

\* ------------------------------------------------------------------ C10
\* C10: every call returns a freshly built structure: results share no object
\* with each other, with an instance or with the class; a modification the
\* client makes through one result leaves every other result as it was
\* returned, and a later call of the same operation returns what an earlier
\* one returned.
Shared == Instances \cup {PaletteAddr, BreakpointsAddr}

C10_ResultsAreFresh ==
    /\ \A j \in 1..Len(returned) :
          /\ Reach(heap, returned[j].addr) \cap Shared = {}
          /\ \A i \in 1..Len(returned) :
                i # j => Reach(heap, returned[i].addr)
                            \cap Reach(heap, returned[j].addr) = {}
          /\ \A i \in 1..Len(returned) :
                returned[i].op = returned[j].op => returned[i].val = returned[j].val
    /\ \A j \in (1..Len(returned)) \ touched :
          Flat(heap, RefV(returned[j].addr)) = returned[j].val

\* three results of one operation; the client modified the second one and
\* holds the first and the third as they were returned
C10_Witness ==
    \E i \in touched : \E j \in (1..Len(returned)) \ touched :
    \E k \in (1..Len(returned)) \ touched :
        /\ returned[i].op = returned[j].op
        /\ returned[i].op = returned[k].op
        /\ j < i
        /\ i < k
        /\ Flat(heap, RefV(returned[i].addr)) # returned[i].val

====
